---- MODULE Spec2Model ----
(***************************************************************************)
(* Model of src/calculate_metrics.ts: the metric calculators (license,     *)
(* responsiveness, correctness, ramp-up), the license classifier, the net  *)
(* score and the driver main.                                              *)
(*                                                                         *)
(* Numbers.  Scores and latencies are JavaScript numbers with at most      *)
(* three decimals; they are kept as integers in thousandths (1 is 1000,    *)
(* 0.7 is 700).  Intermediate ratios are kept exact as pairs <<n, d>>      *)
(* meaning n/d, with <<0, 0>> for NaN and <<1, 0>> for +Infinity, the two  *)
(* values an IEEE division by zero produces here.  performance.now() is    *)
(* the variable clock, in microseconds.  A string that is searched (the    *)
(* license text) is a sequence of one-character strings; a string that is  *)
(* only compared (a license name, an SPDX identifier) is a TLA+ string.    *)
(* An optional value (undefined or null in the source) is <<>> when absent *)
(* and <<v>> when present.                                                 *)
(***************************************************************************)
EXTENDS Integers, Sequences, FiniteSets, TLC

VARIABLES
  pc,          \* main: the await it is suspended on
  repo,        \* main: { owner, name } returned by fetch_repo_info
  clock,       \* performance.now(), microseconds
  startTime,   \* startTime of the calculator main is awaiting
  locals,      \* the locals of the calculator that has just run
  ret,         \* the object that calculator returned
  data,        \* main: the destructured scores and latencies
  stdout,      \* lines written by console.log in main
  console,     \* calculators that logged a diagnostic in a catch block
  args,        \* arguments of a direct call of a pure function
  result,      \* its result
  rpc,         \* calculate_rampup_metric: position of each invocation
  rstart,      \* calculate_rampup_metric: startTime of each invocation
  rret,        \* calculate_rampup_metric: object returned by each invocation
  dir,         \* whether ./repos/<name> exists
  rmRequested, \* invocations that have called fs.rm
  rmPending    \* invocations whose fs.rm has not completed yet

vars ==
  << pc, repo, clock, startTime, locals, ret, data, stdout, console,
     args, result, rpc, rstart, rret, dir, rmRequested, rmPending >>

mainVars ==
  << pc, repo, clock, startTime, locals, ret, data, stdout, console >>

callVars ==
  << args, result >>

rampupVars ==
  << rpc, rstart, rret, dir, rmRequested, rmPending >>

--------------------------------------------------------------------------
(* Optional values *)

None ==
  << >>

Some(v) ==
  << v >>

IsSome(o) ==
  o # << >>

Val(o) ==
  o[1]

--------------------------------------------------------------------------
(* Strings *)

UpperCase ==
  <<"A","B","C","D","E","F","G","H","I","J","K","L","M","N","O","P","Q","R","S","T","U","V","W","X","Y","Z">>

LowerCase ==
  <<"a","b","c","d","e","f","g","h","i","j","k","l","m","n","o","p","q","r","s","t","u","v","w","x","y","z">>

\* String.prototype.toLowerCase on one character
LowerChar(c) ==
  IF \E i \in 1..Len(UpperCase) : UpperCase[i] = c
    THEN LowerCase[CHOOSE i \in 1..Len(UpperCase) : UpperCase[i] = c]
    ELSE c

toLowerCase(s) ==
  [i \in 1..Len(s) |-> LowerChar(s[i])]

\* String.prototype.includes: phrase occurs in s as a contiguous substring
includes(s, phrase) ==
  \E k \in 0..(Len(s) - Len(phrase)) :
    \A j \in 1..Len(phrase) : s[k + j] = phrase[j]

--------------------------------------------------------------------------
(* License classifier *)

compatibleLicenses ==
  { <<"m","i","t"," ","l","i","c","e","n","s","e">>,
    <<"b","s","d"," ","2","-","c","l","a","u","s","e"," ","l","i","c","e","n","s","e">>,
    <<"b","s","d"," ","3","-","c","l","a","u","s","e"," ","l","i","c","e","n","s","e">>,
    <<"a","p","a","c","h","e"," ","l","i","c","e","n","s","e",","," ","v","e","r","s","i","o","n"," ","2",".","0">>,
    <<"l","g","p","l">>,
    <<"g","p","l">>,
    <<"m","o","z","i","l","l","a"," ","p","u","b","l","i","c"," ","l","i","c","e","n","s","e">>,
    <<"c","c","0">> }

permissivePhrases ==
  { <<"p","e","r","m","i","s","s","i","o","n"," ","i","s"," ","h","e","r","e","b","y"," ","g","r","a","n","t","e","d",","," ","f","r","e","e"," ","o","f"," ","c","h","a","r","g","e">>,
    <<"r","e","d","i","s","t","r","i","b","u","t","e">>,
    <<"w","i","t","h","o","u","t"," ","r","e","s","t","r","i","c","t","i","o","n">>,
    <<"p","r","o","v","i","d","e","d"," ","t","h","a","t"," ","t","h","e"," ","a","b","o","v","e"," ","c","o","p","y","r","i","g","h","t"," ","n","o","t","i","c","e">> }

incompatiblePhrases ==
  { <<"n","o","t"," ","f","o","r"," ","u","s","e"," ","i","n">>,
    <<"n","o","t"," ","l","i","c","e","n","s","e","d"," ","f","o","r">>,
    <<"p","r","o","p","r","i","e","t","a","r","y">> }

\* normalizedText?.includes(phrase), used as a condition: undefined is falsy
optIncludes(o, phrase) ==
  IsSome(o) /\ includes(Val(o), phrase)

\* the classifier with the toLowerCase call dropped
check_license_text_case_sensitive(licenseText) ==
  LET normalizedText == licenseText
      mentionsCompatibleLicense ==
        \E license \in compatibleLicenses : optIncludes(normalizedText, license)
      containsPermissivePhrases ==
        \E phrase \in permissivePhrases : optIncludes(normalizedText, phrase)
      containsIncompatiblePhrases ==
        \E phrase \in incompatiblePhrases : optIncludes(normalizedText, phrase)
  IN  (mentionsCompatibleLicense \/ containsPermissivePhrases)
        /\ ~containsIncompatiblePhrases

check_license_text(licenseText) ==
  LET normalizedText ==
        IF IsSome(licenseText) THEN Some(toLowerCase(Val(licenseText))) ELSE None
      mentionsCompatibleLicense ==
        \E license \in compatibleLicenses : optIncludes(normalizedText, license)
      containsPermissivePhrases ==
        \E phrase \in permissivePhrases : optIncludes(normalizedText, phrase)
      containsIncompatiblePhrases ==
        \E phrase \in incompatiblePhrases : optIncludes(normalizedText, phrase)
  IN  (mentionsCompatibleLicense \/ containsPermissivePhrases)
        /\ ~containsIncompatiblePhrases

--------------------------------------------------------------------------
(* Numbers *)

NaN ==
  << 0, 0 >>

Infinity ==
  << 1, 0 >>

\* the number k/1000
Milli(k) ==
  << k, 1000 >>

IsNaN(x) ==
  x[1] = 0 /\ x[2] = 0

IsInfinite(x) ==
  x[1] # 0 /\ x[2] = 0

IsFiniteNumber(x) ==
  x[2] # 0

\* a / b on non-negative integers, IEEE style
Div(a, b) ==
  IF b # 0 THEN << a, b >> ELSE IF a = 0 THEN NaN ELSE Infinity

\* x / k for a non-negative number x and an integer k > 0
DivBy(x, k) ==
  IF IsFiniteNumber(x) THEN << x[1], x[2] * k >> ELSE x

RECURSIVE GCD(_, _)
GCD(a, b) ==
  IF b = 0 THEN a ELSE GCD(b, a % b)

\* x + y on non-negative numbers, over the least common denominator
Add(x, y) ==
  IF IsNaN(x) \/ IsNaN(y) THEN NaN
  ELSE IF IsInfinite(x) \/ IsInfinite(y) THEN Infinity
  ELSE LET m == (x[2] \div GCD(x[2], y[2])) * y[2]
       IN  << x[1] * (m \div x[2]) + y[1] * (m \div y[2]), m >>

\* x * y on non-negative finite numbers
Mul(x, y) ==
  << x[1] * y[1], x[2] * y[2] >>

\* x < y: false as soon as one side is NaN
LessThan(x, y) ==
  /\ ~IsNaN(x)
  /\ ~IsNaN(y)
  /\ ~IsInfinite(x)
  /\ (IsInfinite(y) \/ x[1] * y[2] < y[1] * x[2])

\* x || 0: NaN and 0 are falsy
OrZero(x) ==
  IF IsNaN(x) \/ (IsFiniteNumber(x) /\ x[1] = 0) THEN Milli(0) ELSE x

\* Math.min(x, y) and Math.max(x, y): NaN as soon as one side is NaN
MathMin(x, y) ==
  IF IsNaN(x) \/ IsNaN(y) THEN NaN ELSE IF LessThan(y, x) THEN y ELSE x

MathMax(x, y) ==
  IF IsNaN(x) \/ IsNaN(y) THEN NaN ELSE IF LessThan(x, y) THEN y ELSE x

\* Number(x.toFixed(3)) for x >= 0: the nearest multiple of 1/1000, the
\* larger one on a tie; NaN and Infinity print and parse back as themselves
ToFixed3(x) ==
  IF IsFiniteNumber(x)
    THEN Milli((2 * 1000 * x[1] + x[2]) \div (2 * x[2]))
    ELSE x

\* getLatency, with performance.now() passed in
getLatency(start, now) ==
  ToFixed3(DivBy(DivBy(<< now - start, 1 >>, 1000), 1000))

--------------------------------------------------------------------------
(* Objects *)

\* const { key } = obj
Field(obj, key) ==
  IF key \in DOMAIN obj THEN Some(obj[key]) ELSE None

\* a || b on optional strings: the empty string is falsy too
Truthy(o) ==
  IsSome(o) /\ Val(o) # << >>

OrElse(a, b) ==
  IF Truthy(a) THEN a ELSE b

\* o?.text
OptText(o) ==
  IF IsSome(o) THEN Val(o).text ELSE None

--------------------------------------------------------------------------
(* calculate_license_metric *)

lgplCompatibleSpdxIds ==
  { "LGPL-2.1-only", "LGPL-2.1-or-later", "MIT", "BSD-3-Clause",
    "BSD-2-Clause", "ISC", "Zlib", "Artistic-2.0", "GPL-2.0-only",
    "GPL-2.0-or-later", "GPL-3.0-only", "GPL-3.0-or-later", "LGPL-3.0-only",
    "LGPL-3.0-or-later", "MPL-2.0", "Unlicense", "CC0-1.0" }

\* the locals of the try block, from the response of the transport
licenseLocals(response) ==
  LET licenseInfo == response.repository.licenseInfo
  IN  [ licenseInfo |-> licenseInfo,
        licenseText |-> OrElse(OptText(response.repository.mainLicense),
                               OptText(response.repository.masterLicense)),
        licenseID   |-> IF IsSome(licenseInfo) THEN Val(licenseInfo).spdxId ELSE None,
        licenseName |-> IF IsSome(licenseInfo) THEN Val(licenseInfo).name ELSE None ]

\* the if / else if of the source read as if / else: the allow-list is not
\* consulted once the name is "Other" and raw text is present
licenseScoreClassifierOnly(l) ==
  IF l.licenseInfo = None \/ l.licenseID = None
    THEN Milli(0)
  ELSE IF l.licenseName = Some("Other") /\ Truthy(l.licenseText)
    THEN IF check_license_text(l.licenseText) THEN Milli(1000) ELSE Milli(0)
  ELSE IF Val(l.licenseID) \in lgplCompatibleSpdxIds
    THEN Milli(1000)
  ELSE Milli(0)

\* the allow-list test negated
licenseScoreNotInList(l) ==
  IF l.licenseInfo = None \/ l.licenseID = None
    THEN Milli(0)
  ELSE IF /\ l.licenseName = Some("Other")
          /\ Truthy(l.licenseText)
          /\ check_license_text(l.licenseText)
    THEN Milli(1000)
  ELSE IF Val(l.licenseID) \notin lgplCompatibleSpdxIds
    THEN Milli(1000)
  ELSE Milli(0)

\* licenseScore as the try block leaves it
licenseScoreOf(l) ==
  IF l.licenseInfo = None \/ l.licenseID = None
    THEN Milli(0)
  ELSE IF /\ l.licenseName = Some("Other")
          /\ Truthy(l.licenseText)
          /\ check_license_text(l.licenseText)
    THEN Milli(1000)
  ELSE IF Val(l.licenseID) \in lgplCompatibleSpdxIds
    THEN Milli(1000)
  ELSE Milli(0)

\* the object calculate_license_metric returns
calculate_license_metric(response, start, now) ==
  IF response.fault
    THEN [ licenseScore |-> Milli(0), license_latency |-> Milli(0) ]
    ELSE [ licenseScore    |-> licenseScoreOf(licenseLocals(response)),
           license_latency |-> getLatency(start, now) ]

--------------------------------------------------------------------------
(* calculate_responsiveness_metric *)

MsPerDay ==
  86400000

maxAcceptableResponseTime ==
  << MsPerDay * 7, 1 >>

\* new Date(s).getTime() for a timestamp s of the platform, kept as its day
\* and its second within the day
getTime(s) ==
  s.day * MsPerDay + s.sec * 1000

\* pullRequests.forEach: << totalPrResponseTime, resolvedPrs >>
RECURSIVE prLoop(_, _)
prLoop(edges, acc) ==
  IF edges = << >> THEN acc
  ELSE LET pr == Head(edges).node
           closedOrMerged == IF IsSome(pr.closedAt) THEN pr.closedAt ELSE pr.mergedAt
       IN  IF IsSome(pr.closedAt) \/ IsSome(pr.mergedAt)
             THEN LET createdAt == IF IsSome(pr.createdAt)
                                     THEN getTime(Val(pr.createdAt)) ELSE 0
                      closedOrMergedAt == IF IsSome(closedOrMerged)
                                            THEN getTime(Val(closedOrMerged)) ELSE 0
                  IN  prLoop(Tail(edges),
                             << acc[1] + (closedOrMergedAt - createdAt), acc[2] + 1 >>)
             ELSE prLoop(Tail(edges), acc)

\* issues.forEach: << totalIssueResponseTime, resolvedIssues >>
RECURSIVE issueLoop(_, _)
issueLoop(edges, acc) ==
  IF edges = << >> THEN acc
  ELSE LET issue == Head(edges).node
       IN  IF IsSome(issue.closedAt)
             THEN LET createdAt == getTime(issue.createdAt)
                      closedAt == getTime(Val(issue.closedAt))
                  IN  issueLoop(Tail(edges),
                                << acc[1] + (closedAt - createdAt), acc[2] + 1 >>)
             ELSE issueLoop(Tail(edges), acc)

\* resolved > 0 ? total / resolved : Infinity
average(acc) ==
  IF acc[2] > 0 THEN << acc[1], acc[2] >> ELSE Infinity

\* the locals of the try block
responsivenessLocals(response) ==
  LET prAcc == prLoop(response.repository.pullRequests.edges, << 0, 0 >>)
      issueAcc == issueLoop(response.repository.issues.edges, << 0, 0 >>)
  IN  [ totalPrResponseTime    |-> prAcc[1],
        resolvedPrs            |-> prAcc[2],
        avgPrResponseTime      |-> average(prAcc),
        totalIssueResponseTime |-> issueAcc[1],
        resolvedIssues         |-> issueAcc[2],
        avgIssueResponseTime   |-> average(issueAcc) ]

\* the else-if branch tests the pull requests alone
responsivenessScoreOnlyPr(l) ==
  IF /\ LessThan(l.avgPrResponseTime, maxAcceptableResponseTime)
     /\ LessThan(l.avgIssueResponseTime, maxAcceptableResponseTime)
    THEN Milli(1000)
  ELSE IF LessThan(l.avgPrResponseTime, maxAcceptableResponseTime)
    THEN Milli(700)
  ELSE Milli(300)

\* responsivenessScore as the if / else if / else leaves it
responsivenessScoreOf(l) ==
  IF /\ LessThan(l.avgPrResponseTime, maxAcceptableResponseTime)
     /\ LessThan(l.avgIssueResponseTime, maxAcceptableResponseTime)
    THEN Milli(1000)
  ELSE IF \/ LessThan(l.avgPrResponseTime, maxAcceptableResponseTime)
          \/ LessThan(l.avgIssueResponseTime, maxAcceptableResponseTime)
    THEN Milli(700)
  ELSE Milli(300)

\* the object calculate_responsiveness_metric returns
calculate_responsiveness_metric(response, start, now) ==
  IF response.fault
    THEN [ responsivenessScore |-> Milli(0), responsive_latency |-> Milli(0) ]
    ELSE [ responsivenessScore |-> responsivenessScoreOf(responsivenessLocals(response)),
           responsive_latency  |-> getLatency(start, now) ]

--------------------------------------------------------------------------
(* calculate_correctness_metric *)

\* the ratio of recent commits without the cap at 1
correctnessLocalsUncapped(repository) ==
  LET openIssues == repository.issues
      closedIssues == repository.closedIssues
      openPullRequests == repository.pullRequests
      releases == repository.releases
      recentCommits == Val(repository.defaultBranchRef)
      issueRatio == OrZero(Div(closedIssues, openIssues + closedIssues))
      prRatio == OrZero(Div(releases, openPullRequests + releases))
      recentCommitRatio == Div(recentCommits, 30)
  IN  [ openIssues        |-> openIssues,
        closedIssues      |-> closedIssues,
        openPullRequests  |-> openPullRequests,
        releases          |-> releases,
        recentCommits     |-> recentCommits,
        issueRatio        |-> issueRatio,
        prRatio           |-> prRatio,
        recentCommitRatio |-> recentCommitRatio,
        correctnessScore  |->
          ToFixed3(MathMax(Milli(0),
                           DivBy(Add(Add(issueRatio, prRatio), recentCommitRatio), 3))) ]

\* the locals of the try block; Math.min with one argument returns it
correctnessLocals(repository) ==
  LET openIssues == repository.issues
      closedIssues == repository.closedIssues
      openPullRequests == repository.pullRequests
      releases == repository.releases
      recentCommits == Val(repository.defaultBranchRef)
      issueRatio == OrZero(Div(closedIssues, openIssues + closedIssues))
      prRatio == OrZero(Div(releases, openPullRequests + releases))
      recentCommitRatio == MathMin(Div(recentCommits, 30), Milli(1000))
  IN  [ openIssues        |-> openIssues,
        closedIssues      |-> closedIssues,
        openPullRequests  |-> openPullRequests,
        releases          |-> releases,
        recentCommits     |-> recentCommits,
        issueRatio        |-> issueRatio,
        prRatio           |-> prRatio,
        recentCommitRatio |-> recentCommitRatio,
        correctnessScore  |->
          ToFixed3(MathMax(Milli(0),
                           DivBy(Add(Add(issueRatio, prRatio), recentCommitRatio), 3))) ]

\* whether the try block throws: the transport faulted, or the repository
\* has no default branch and repo.defaultBranchRef.target is a TypeError
correctnessThrows(response) ==
  response.fault \/ response.repository.defaultBranchRef = None

\* the object calculate_correctness_metric returns; the catch block returns
\* the license fields
calculate_correctness_metric(response, start, now) ==
  IF correctnessThrows(response)
    THEN [ licenseScore |-> Milli(0), license_latency |-> Milli(0) ]
    ELSE [ correctnessScore    |-> correctnessLocals(response.repository).correctnessScore,
           correctness_latency |-> getLatency(start, now) ]

--------------------------------------------------------------------------
(* calculate_net_score *)

\* one weight written 0.5
calculate_net_score_half(licenseScore, rampupScore, correctnessScore, responsiveMaintenanceScore) ==
  Add(Add(Add(Mul(<< 1, 4 >>, licenseScore), Mul(<< 1, 4 >>, rampupScore)),
          Mul(<< 1, 2 >>, correctnessScore)),
      Mul(<< 1, 4 >>, responsiveMaintenanceScore))

calculate_net_score(licenseScore, rampupScore, correctnessScore, responsiveMaintenanceScore) ==
  Add(Add(Add(Mul(<< 1, 4 >>, licenseScore), Mul(<< 1, 4 >>, rampupScore)),
          Mul(<< 1, 4 >>, correctnessScore)),
      Mul(<< 1, 4 >>, responsiveMaintenanceScore))

--------------------------------------------------------------------------
(* What the collaborators can answer *)

\* largest number of edges in one connection of a response (the query asks
\* for the first 100)
MaxEdges ==
  2

\* largest issue, pull request and release count tried, beside 5 and 10
MaxCount ==
  2

\* largest recent commit count tried, beside the values around the cap
MaxCommits ==
  2

\* what performance.now() advances by across one await, microseconds
TickVals ==
  { 1600 }

\* the identities url_main can resolve, undefined included
RepoVals ==
  { [ owner |-> None, name |-> None ],
    [ owner |-> Some("octocat"), name |-> Some("hello-world") ] }

Fault ==
  [ fault |-> TRUE ]

TextEmpty ==
  << >>

TextMit ==
  <<"M","I","T"," ","L","i","c","e","n","s","e">>

TextProprietaryMit ==
  <<"P","r","o","p","r","i","e","t","a","r","y","."," ","M","I","T"," ","L","i","c","e","n","s","e">>

TextNeutral ==
  <<"A","l","l"," ","r","i","g","h","t","s"," ","r","e","s","e","r","v","e","d">>

LicenseTexts ==
  { TextEmpty, TextMit, TextProprietaryMit, TextNeutral }

\* object(expression: ...): null, an object that is no Blob, or a Blob
BlobVals ==
  { None, Some([ text |-> None ]) }
    \cup { Some([ text |-> Some(txt) ]) : txt \in LicenseTexts }

LicenseInfoVals ==
  { None }
    \cup { Some([ name |-> n, spdxId |-> s ]) :
             n \in { None, Some("Other"), Some("MIT License") },
             s \in { None, Some("MIT"), Some("NOASSERTION"), Some("Apache-2.0") } }

LicenseResponses ==
  { Fault }
    \cup { [ fault |-> FALSE,
             repository |-> [ licenseInfo |-> li, mainLicense |-> a, masterLicense |-> b ] ] :
             li \in LicenseInfoVals, a \in BlobVals, b \in BlobVals }

\* a timestamp of the platform: day number and second within the day
Date(d, s) ==
  [ day |-> d, sec |-> s ]

PrNodes ==
  { [ createdAt |-> Some(c), closedAt |-> cl, mergedAt |-> m ] :
      c \in { Date(0, 0), Date(0, 1) },
      cl \in { None, Some(Date(7, 0)) },
      m \in { None, Some(Date(7, 0)) } }
    \cup { [ createdAt |-> None, closedAt |-> Some(Date(7, 0)), mergedAt |-> None ],
           [ createdAt |-> Some(Date(0, 0)), closedAt |-> None,
             mergedAt |-> Some(Date(0, 1)) ] }

IssueNodes ==
  { [ createdAt |-> c, closedAt |-> cl ] :
      c \in { Date(0, 0), Date(0, 1) },
      cl \in { None, Some(Date(7, 0)) } }
    \cup { [ createdAt |-> Date(0, 0), closedAt |-> Some(Date(0, 1)) ] }

\* the sequences of at most n elements of S
SeqUpTo(S, n) ==
  UNION { [ 1..k -> S ] : k \in 0..n }

Edges(nodes) ==
  SeqUpTo({ [ node |-> nd ] : nd \in nodes }, MaxEdges)

ResponsivenessResponses ==
  { Fault }
    \cup { [ fault |-> FALSE,
             repository |-> [ pullRequests |-> [ edges |-> prs ],
                              issues |-> [ edges |-> iss ] ] ] :
             prs \in Edges(PrNodes), iss \in Edges(IssueNodes) }

CountVals ==
  (0..MaxCount) \cup { 5, 10 }

CommitVals ==
  (0..MaxCommits) \cup { 15, 29, 30, 31, 60 }

\* defaultBranchRef is null for a repository without a branch
CorrectnessResponses ==
  { Fault }
    \cup { [ fault |-> FALSE,
             repository |-> [ issues |-> oi, closedIssues |-> ci, pullRequests |-> op,
                              releases |-> rl, defaultBranchRef |-> rc ] ] :
             oi \in CountVals, ci \in CountVals, op \in CountVals, rl \in CountVals,
             rc \in { None } \cup { Some(n) : n \in CommitVals } }

--------------------------------------------------------------------------
(* main *)

FieldOrder ==
  << "licenseScore", "license_latency", "responsivenessScore",
     "responsive_latency", "correctnessScore", "correctness_latency" >>

\* a number as JSON prints it: NaN and Infinity print as null
JsonNumber(x) ==
  IF IsFiniteNumber(x) THEN x ELSE << "null" >>

\* JSON.stringify(data): the members in order, those that are undefined left out
JSON_stringify(obj) ==
  LET members == [ i \in 1..Len(FieldOrder) |-> << FieldOrder[i], obj[FieldOrder[i]] >> ]
      defined == SelectSeq(members, LAMBDA m : IsSome(m[2]))
  IN  [ i \in 1..Len(defined) |-> << defined[i][1], JsonNumber(Val(defined[i][2])) >> ]

\* the member key of a printed line, absent when the line has none
Member(line, key) ==
  IF \E i \in 1..Len(line) : line[i][1] = key
    THEN Some(line[CHOOSE i \in 1..Len(line) : line[i][1] = key][2])
    ELSE None

MainIdle ==
  /\ pc = "idle"
  /\ repo = None
  /\ startTime = 0
  /\ locals = None
  /\ ret = None
  /\ data = [ k \in { FieldOrder[i] : i \in 1..Len(FieldOrder) } |-> None ]
  /\ stdout = << >>

CallIdle ==
  /\ args = None
  /\ result = None

RampupIdle ==
  /\ rpc = << >>
  /\ rstart = << >>
  /\ rret = << >>
  /\ dir = FALSE
  /\ rmRequested = { }
  /\ rmPending = { }

\* main() has called fetch_repo_info, which awaits url_main
Init ==
  /\ pc = "fetch_repo_info"
  /\ repo = None
  /\ clock = 0
  /\ startTime = 0
  /\ locals = None
  /\ ret = None
  /\ data = [ k \in { FieldOrder[i] : i \in 1..Len(FieldOrder) } |-> None ]
  /\ stdout = << >>
  /\ console = { }
  /\ CallIdle
  /\ RampupIdle

\* url_main resolves; main calls calculate_license_metric, which sends its query
FetchRepoInfoReturns ==
  /\ pc = "fetch_repo_info"
  /\ \E r \in RepoVals, dt \in TickVals :
       /\ repo' = Some(r)
       /\ clock' = clock + dt
  /\ startTime' = clock'
  /\ pc' = "license"
  /\ UNCHANGED << locals, ret, data, stdout, console, callVars, rampupVars >>

\* the license catch block lets the fault through instead of returning zeros
LicenseRethrowsFor(responses) ==
  /\ pc = "license"
  /\ \E response \in responses, dt \in TickVals :
       /\ clock' = clock + dt
       /\ locals' = IF response.fault THEN None ELSE Some(licenseLocals(response))
       /\ ret' = IF response.fault THEN None
                 ELSE Some(calculate_license_metric(response, startTime, clock'))
       /\ console' = console
       /\ pc' = IF response.fault THEN "rejected" ELSE "license_returned"
  /\ UNCHANGED << repo, startTime, data, stdout, callVars, rampupVars >>

\* the transport answers calculate_license_metric, which runs to its return
LicenseReturnsFor(responses) ==
  /\ pc = "license"
  /\ \E response \in responses, dt \in TickVals :
       /\ clock' = clock + dt
       /\ locals' = IF response.fault THEN None ELSE Some(licenseLocals(response))
       /\ ret' = Some(calculate_license_metric(response, startTime, clock'))
       /\ console' = IF response.fault THEN console \cup { "license" } ELSE console
  /\ pc' = "license_returned"
  /\ UNCHANGED << repo, startTime, data, stdout, callVars, rampupVars >>

LicenseReturns ==
  LicenseReturnsFor(LicenseResponses)

\* main destructures the result and calls calculate_responsiveness_metric
MainAfterLicense ==
  /\ pc = "license_returned"
  /\ data' = [ data EXCEPT !.licenseScore = Field(Val(ret), "licenseScore"),
                           !.license_latency = Field(Val(ret), "license_latency") ]
  /\ startTime' = clock
  /\ locals' = None
  /\ ret' = None
  /\ pc' = "responsiveness"
  /\ UNCHANGED << repo, clock, stdout, console, callVars, rampupVars >>

\* the transport answers calculate_responsiveness_metric
ResponsivenessReturnsFor(responses) ==
  /\ pc = "responsiveness"
  /\ \E response \in responses, dt \in TickVals :
       /\ clock' = clock + dt
       /\ locals' = IF response.fault THEN None
                    ELSE Some(responsivenessLocals(response))
       /\ ret' = Some(calculate_responsiveness_metric(response, startTime, clock'))
       /\ console' = IF response.fault THEN console \cup { "responsiveness" } ELSE console
  /\ pc' = "responsiveness_returned"
  /\ UNCHANGED << repo, startTime, data, stdout, callVars, rampupVars >>

ResponsivenessReturns ==
  ResponsivenessReturnsFor(ResponsivenessResponses)

\* main destructures the result and calls calculate_correctness_metric
MainAfterResponsiveness ==
  /\ pc = "responsiveness_returned"
  /\ data' = [ data EXCEPT
                 !.responsivenessScore = Field(Val(ret), "responsivenessScore"),
                 !.responsive_latency = Field(Val(ret), "responsive_latency") ]
  /\ startTime' = clock
  /\ locals' = None
  /\ ret' = None
  /\ pc' = "correctness"
  /\ UNCHANGED << repo, clock, stdout, console, callVars, rampupVars >>

\* the transport answers calculate_correctness_metric
CorrectnessReturnsFor(responses) ==
  /\ pc = "correctness"
  /\ \E response \in responses, dt \in TickVals :
       /\ clock' = clock + dt
       /\ locals' = IF correctnessThrows(response) THEN None
                    ELSE Some(correctnessLocals(response.repository))
       /\ ret' = Some(calculate_correctness_metric(response, startTime, clock'))
       /\ console' = IF correctnessThrows(response)
                       THEN console \cup { "correctness" } ELSE console
  /\ pc' = "correctness_returned"
  /\ UNCHANGED << repo, startTime, data, stdout, callVars, rampupVars >>

CorrectnessReturns ==
  CorrectnessReturnsFor(CorrectnessResponses)

\* main destructures the result, builds data and prints it
MainAfterCorrectness ==
  /\ pc = "correctness_returned"
  /\ data' = [ data EXCEPT
                 !.correctnessScore = Field(Val(ret), "correctnessScore"),
                 !.correctness_latency = Field(Val(ret), "correctness_latency") ]
  /\ stdout' = Append(stdout, JSON_stringify(data'))
  /\ locals' = None
  /\ ret' = None
  /\ pc' = "done"
  /\ UNCHANGED << repo, clock, startTime, console, callVars, rampupVars >>

Next ==
  \/ FetchRepoInfoReturns
  \/ LicenseReturns
  \/ MainAfterLicense
  \/ ResponsivenessReturns
  \/ MainAfterResponsiveness
  \/ CorrectnessReturns
  \/ MainAfterCorrectness

Spec ==
  Init /\ [][Next]_vars

\* answers picked to cover each path of each calculator: the fault, and
\* the returns of the try block
LicenseSamples ==
  { Fault,
    [ fault |-> FALSE,
      repository |-> [ licenseInfo |-> None, mainLicense |-> None,
                       masterLicense |-> None ] ],
    [ fault |-> FALSE,
      repository |-> [ licenseInfo |-> Some([ name |-> Some("MIT License"),
                                              spdxId |-> Some("MIT") ]),
                       mainLicense |-> Some([ text |-> Some(TextMit) ]),
                       masterLicense |-> None ] ] }

ResponsivenessSamples ==
  { Fault }
    \cup { [ fault |-> FALSE,
             repository |-> [ pullRequests |-> [ edges |-> prs ],
                              issues |-> [ edges |-> iss ] ] ] :
             prs \in { << >>,
                       << [ node |-> [ createdAt |-> Some(Date(0, 1)),
                                       closedAt |-> Some(Date(7, 0)),
                                       mergedAt |-> None ] ] >> },
             iss \in { << >>,
                       << [ node |-> [ createdAt |-> Date(0, 1),
                                       closedAt |-> Some(Date(7, 0)) ] ] >> } }

CorrectnessSamples ==
  { Fault }
    \cup { [ fault |-> FALSE,
             repository |-> [ issues |-> 0, closedIssues |-> ci, pullRequests |-> 0,
                              releases |-> 5, defaultBranchRef |-> rc ] ] :
             ci \in { 0, 10 }, rc \in { None, Some(15) } }

LiveNext ==
  \/ FetchRepoInfoReturns
  \/ LicenseReturnsFor(LicenseSamples)
  \/ MainAfterLicense
  \/ ResponsivenessReturnsFor(ResponsivenessSamples)
  \/ MainAfterResponsiveness
  \/ CorrectnessReturnsFor(CorrectnessSamples)
  \/ MainAfterCorrectness

\* main under the scheduling of the runtime: every await is answered (each
\* transport call returns or faults) and every continuation is run
LiveSpec ==
  Init /\ [][LiveNext]_vars /\ WF_vars(LiveNext)

--------------------------------------------------------------------------
(* check_license_text called on its own *)

\* largest number of fragments a text is made of
MaxFragments ==
  2

\* pieces of license text, in several letter cases; some phrases of the
\* classifier arise only across two pieces
Fragments ==
  { <<"M","I","T"," ","L","i","c","e","n","s","e">>,
    <<"A","p","a","c","h","e"," ","L","i","c","e","n","s","e",","," ","V","e","r","s","i","o","n"," ","2",".","0">>,
    <<"L","G">>,
    <<"P","L">>,
    <<"R","e","d","i","s","t","r","i","b","u","t","e">>,
    <<"w","i","t","h","o","u","t"," ","r","e","s","t","r","i","c","t","i","o","n">>,
    <<"N","o","t"," ","F","o","r"," ","U","s","e"," ","I","n">>,
    <<"n","o","t"," ","l","i","c","e","n","s","e","d"," ","f","o","r">>,
    <<"P","R","O","P","R","I","E","T">>,
    <<"a","r","y">>,
    <<" ","a","l","l"," ","r","i","g","h","t","s"," ","r","e","s","e","r","v","e","d"," ">> }

RECURSIVE Concat(_)
Concat(ss) ==
  IF ss = << >> THEN << >> ELSE Head(ss) \o Concat(Tail(ss))

Texts ==
  { Concat(fs) : fs \in SeqUpTo(Fragments, MaxFragments) }

ClassifierInit ==
  /\ MainIdle
  /\ RampupIdle
  /\ clock = 0
  /\ console = { }
  /\ args \in { << None >> } \cup { << Some(txt) >> : txt \in Texts }
  /\ result = None

CheckLicenseTextCall ==
  /\ Len(args) = 1
  /\ result = None
  /\ result' = Some(check_license_text(args[1]))
  /\ UNCHANGED << args, mainVars, rampupVars >>

ClassifierNext ==
  CheckLicenseTextCall

ClassifierSpec ==
  ClassifierInit /\ [][ClassifierNext]_vars

--------------------------------------------------------------------------
(* calculate_net_score called on its own *)

ScoreVals ==
  { Milli(k) : k \in { 0, 300, 500, 700, 833, 1000 } }

NetScoreInit ==
  /\ MainIdle
  /\ RampupIdle
  /\ clock = 0
  /\ console = { }
  /\ args \in [ 1..4 -> ScoreVals ]
  /\ result = None

NetScoreCall ==
  /\ Len(args) = 4
  /\ result = None
  /\ result' = Some(calculate_net_score(args[1], args[2], args[3], args[4]))
  /\ UNCHANGED << args, mainVars, rampupVars >>

NetScoreNext ==
  NetScoreCall

NetScoreSpec ==
  NetScoreInit /\ [][NetScoreNext]_vars

--------------------------------------------------------------------------
(* calculate_rampup_metric, called for one repository name *)

\* number of invocations for the same name
MaxInvocations ==
  2

Invocations ==
  1..MaxInvocations

RampupInit ==
  /\ MainIdle
  /\ CallIdle
  /\ clock = 0
  /\ console = { }
  /\ rpc = [ i \in Invocations |-> "idle" ]
  /\ rstart = [ i \in Invocations |-> 0 ]
  /\ rret = [ i \in Invocations |-> None ]
  /\ dir = FALSE
  /\ rmRequested = { }
  /\ rmPending = { }

\* the call: startTime is taken and git.clone is awaited
RampupCall(i) ==
  /\ rpc[i] = "idle"
  /\ rstart' = [ rstart EXCEPT ![i] = clock ]
  /\ rpc' = [ rpc EXCEPT ![i] = "clone" ]
  /\ UNCHANGED << clock, console, rret, dir, rmRequested, rmPending >>
  /\ UNCHANGED << pc, repo, startTime, locals, ret, data, stdout, callVars >>

\* the removal awaited (fs.promises.rm) before the return
CloneResolvesAwaitRm(i) ==
  /\ rpc[i] = "clone"
  /\ \E dt \in TickVals : clock' = clock + dt
  /\ dir' = FALSE
  /\ rmRequested' = rmRequested \cup { i }
  /\ rmPending' = rmPending
  /\ rret' = [ rret EXCEPT ![i] = Some([ rampupScore |-> Milli(0),
                                         rampup_latency |-> getLatency(rstart[i], clock') ]) ]
  /\ rpc' = [ rpc EXCEPT ![i] = "returned" ]
  /\ UNCHANGED << console, rstart >>
  /\ UNCHANGED << pc, repo, startTime, locals, ret, data, stdout, callVars >>

\* git.clone resolves: the directory is there, fs.rm is called with its
\* callback and the function returns without waiting for it
CloneResolves(i) ==
  /\ rpc[i] = "clone"
  /\ \E dt \in TickVals : clock' = clock + dt
  /\ dir' = TRUE
  /\ rmRequested' = rmRequested \cup { i }
  /\ rmPending' = rmPending \cup { i }
  /\ rret' = [ rret EXCEPT ![i] = Some([ rampupScore |-> Milli(0),
                                         rampup_latency |-> getLatency(rstart[i], clock') ]) ]
  /\ rpc' = [ rpc EXCEPT ![i] = "returned" ]
  /\ UNCHANGED << console, rstart >>
  /\ UNCHANGED << pc, repo, startTime, locals, ret, data, stdout, callVars >>

\* git.clone rejects, having created the directory or not: the await
\* throws, and the rest of the function, fs.rm included, does not run
CloneRejects(i) ==
  /\ rpc[i] = "clone"
  /\ \E dt \in TickVals : clock' = clock + dt
  /\ \E partial \in BOOLEAN : dir' = (dir \/ partial)
  /\ rpc' = [ rpc EXCEPT ![i] = "rejected" ]
  /\ UNCHANGED << console, rstart, rret, rmRequested, rmPending >>
  /\ UNCHANGED << pc, repo, startTime, locals, ret, data, stdout, callVars >>

\* a pending fs.rm completes and its callback runs: the directory is gone,
\* or the removal failed (the path is absent, or the system refused) and
\* the callback logs the error
RmCompletes(i) ==
  /\ i \in rmPending
  /\ rmPending' = rmPending \ { i }
  /\ \E refused \in BOOLEAN :
       IF dir /\ ~refused
         THEN dir' = FALSE /\ console' = console
         ELSE dir' = dir /\ console' = console \cup { "rampup" }
  /\ UNCHANGED << clock, rpc, rstart, rret, rmRequested >>
  /\ UNCHANGED << pc, repo, startTime, locals, ret, data, stdout, callVars >>

RampupNext ==
  \/ \E i \in Invocations : RampupCall(i)
  \/ \E i \in Invocations : CloneResolves(i)
  \/ \E i \in Invocations : CloneRejects(i)
  \/ \E i \in Invocations : RmCompletes(i)

RampupSpec ==
  RampupInit /\ [][RampupNext]_vars

--------------------------------------------------------------------------
(* Claims *)

\* C1 (as claimed).  When the transport call of the Correctness calculator
\* faults, the record main prints carries correctnessScore = 0 and
\* correctness_latency = 0.
C1_FaultGivesZeroCorrectness ==
  (pc = "done" /\ "correctness" \in console) =>
    /\ Member(stdout[1], "correctnessScore") = Some(Milli(0))
    /\ Member(stdout[1], "correctness_latency") = Some(Milli(0))

\* C2.  Whatever the three transport calls do (return or fault, in any of
\* the 8 combinations), no fault reaches main: main invokes the License, the
\* Responsiveness and the Correctness calculator, never prints more than one
\* record, and ends having printed exactly one.
C2_AlwaysOneRecord ==
  /\ [](Len(stdout) <= 1)
  /\ <>(pc = "license")
  /\ <>(pc = "responsiveness")
  /\ <>(pc = "correctness")
  /\ <>[](pc = "done" /\ Len(stdout) = 1)

\* C2 witness: all three transport calls faulted and the record is printed
C2_Witness ==
  /\ pc = "done"
  /\ console = { "license", "responsiveness", "correctness" }
  /\ Len(stdout) = 1

\* the case of C3: license metadata present (licenseInfo with an SPDX
\* identifier), name "Other", raw text present
C3_Case ==
  /\ pc = "license_returned"
  /\ IsSome(locals)
  /\ IsSome(Val(locals).licenseInfo)
  /\ IsSome(Val(Val(locals).licenseInfo).spdxId)
  /\ Val(Val(locals).licenseInfo).name = Some("Other")
  /\ Truthy(Val(locals).licenseText)

\* C3 (as claimed).  With license metadata present, the name "Other" and raw
\* text present, the score is 1 if check_license_text finds the text
\* compatible and 0 otherwise, for every value of the SPDX identifier.
C3_ClassifierAloneDecides ==
  C3_Case =>
    Val(ret).licenseScore =
      IF check_license_text(Val(locals).licenseText) THEN Milli(1000) ELSE Milli(0)

\* C3 (amended).  With license metadata present, the name "Other" and raw
\* text present, the score is 1 if check_license_text finds the text
\* compatible or the SPDX identifier is on the allow-list, and 0 otherwise.
C3_ClassifierOrAllowList ==
  C3_Case =>
    Val(ret).licenseScore =
      IF \/ check_license_text(Val(locals).licenseText)
         \/ Val(Val(Val(locals).licenseInfo).spdxId) \in lgplCompatibleSpdxIds
        THEN Milli(1000) ELSE Milli(0)

\* C3 witness: name "Other", compatible text, an identifier off the list
C3_Witness ==
  /\ C3_Case
  /\ Val(Val(locals).licenseInfo).spdxId = Some("NOASSERTION")
  /\ check_license_text(Val(locals).licenseText)
  /\ Val(ret).licenseScore = Milli(1000)

\* C4.  Without license metadata (licenseInfo absent, or no SPDX identifier)
\* the score is 0; otherwise, when the name is not "Other" or no raw text is
\* present, the score is 1 exactly when the SPDX identifier is on the
\* allow-list, and 0 otherwise; "MIT" gives 1.
C4_AllowListDecides ==
  (pc = "license_returned" /\ IsSome(locals)) =>
    LET licenseInfo == Val(locals).licenseInfo
        score == Val(ret).licenseScore
    IN  IF licenseInfo = None \/ Val(licenseInfo).spdxId = None
          THEN score = Milli(0)
          ELSE (Val(licenseInfo).name # Some("Other") \/ ~Truthy(Val(locals).licenseText)) =>
                 /\ score = IF Val(Val(licenseInfo).spdxId) \in lgplCompatibleSpdxIds
                              THEN Milli(1000) ELSE Milli(0)
                 /\ Val(licenseInfo).spdxId = Some("MIT") => score = Milli(1000)

\* C4 witness: SPDX identifier "MIT" under its own name scores 1
C4_Witness ==
  /\ pc = "license_returned"
  /\ IsSome(locals)
  /\ Val(locals).licenseInfo = Some([ name |-> Some("MIT License"), spdxId |-> Some("MIT") ])
  /\ Val(ret).licenseScore = Milli(1000)

\* an average below 7 days (604 800 000 ms); +Infinity and NaN are not
C5_Below(avg) ==
  avg[2] > 0 /\ avg[1] < 604800000 * avg[2]

\* C5.  On the non-fault path the responsiveness score is decided by the two
\* averages, each total / resolved, or +Infinity when nothing is resolved:
\* both below 7 days gives 1, exactly one gives 0.7 whichever it is,
\* neither (both infinite included) gives 0.3.
C5_ThresholdPolicy ==
  (pc = "responsiveness_returned" /\ IsSome(locals)) =>
    LET l == Val(locals)
        score == Val(ret).responsivenessScore
        prBelow == C5_Below(l.avgPrResponseTime)
        issueBelow == C5_Below(l.avgIssueResponseTime)
    IN  /\ l.avgPrResponseTime =
             IF l.resolvedPrs = 0 THEN Infinity
             ELSE << l.totalPrResponseTime, l.resolvedPrs >>
        /\ l.avgIssueResponseTime =
             IF l.resolvedIssues = 0 THEN Infinity
             ELSE << l.totalIssueResponseTime, l.resolvedIssues >>
        /\ (prBelow /\ issueBelow) => score = Milli(1000)
        /\ (prBelow /\ ~issueBelow) => score = Milli(700)
        /\ (~prBelow /\ issueBelow) => score = Milli(700)
        /\ (~prBelow /\ ~issueBelow) => score = Milli(300)

\* C5 witness: no pull request resolved, the issues below 7 days: 0.7
C5_Witness ==
  /\ pc = "responsiveness_returned"
  /\ IsSome(locals)
  /\ Val(locals).resolvedPrs = 0
  /\ Val(locals).resolvedIssues > 1
  /\ C5_Below(Val(locals).avgIssueResponseTime)
  /\ Val(ret).responsivenessScore = Milli(700)

\* C6.  For the counts of a successful query the correctness score is
\* (issueRatio + prRatio + recentCommitRatio) / 3 rounded to 3 decimals and
\* lies in [0,1], with issueRatio = closed / (open + closed) and prRatio =
\* releases / (openPRs + releases), each 0 on a zero denominator, and
\* recentCommitRatio = min(recentCommits / 30, 1); it is never NaN or
\* infinite; 10 closed, 0 open, 5 releases, 0 open PRs, 15 commits give 0.833.
C6_CorrectnessScore ==
  (pc = "correctness_returned" /\ IsSome(locals)) =>
    LET l == Val(locals)
        score == Val(ret).correctnessScore
        inum == l.closedIssues
        iden == l.openIssues + l.closedIssues
        pn == l.releases
        pd == l.openPullRequests + l.releases
        cn == IF l.recentCommits >= 30 THEN 30 ELSE l.recentCommits
        \* the three ratios over the denominators i, p and 30; a ratio with
        \* a zero denominator counts 0 over 1
        i == IF iden = 0 THEN 1 ELSE iden
        p == IF pd = 0 THEN 1 ELSE pd
        num == inum * p * 30 + pn * i * 30 + cn * i * p
        den == 3 * i * p * 30
        dist == 1000 * num - score[1] * den
    IN  /\ score[2] = 1000
        /\ score[1] >= 0
        /\ score[1] <= 1000
        /\ 2 * dist <= den
        /\ 2 * dist >= -den
        /\ ( /\ l.closedIssues = 10 /\ l.openIssues = 0 /\ l.releases = 5
             /\ l.openPullRequests = 0 /\ l.recentCommits = 15 )
             => score = Milli(833)

\* C6 witness: the scenario of the claim
C6_Witness ==
  /\ pc = "correctness_returned"
  /\ IsSome(locals)
  /\ Val(locals).closedIssues = 10
  /\ Val(locals).openIssues = 0
  /\ Val(locals).releases = 5
  /\ Val(locals).openPullRequests = 0
  /\ Val(locals).recentCommits = 15
  /\ Val(ret).correctnessScore = Milli(833)

\* phrase occurs in s whatever the letter case of s
C7_ContainsAnyCase(s, phrase) ==
  \E k \in 0..(Len(s) - Len(phrase)) :
    \A j \in 1..Len(phrase) : LowerChar(s[k + j]) = phrase[j]

\* the restrictive phrases the claim names
C7_Restrictive ==
  { <<"n","o","t"," ","f","o","r"," ","u","s","e"," ","i","n">>,
    <<"n","o","t"," ","l","i","c","e","n","s","e","d"," ","f","o","r">>,
    <<"p","r","o","p","r","i","e","t","a","r","y">> }

\* C7.  check_license_text answers compatible exactly when the text, letter
\* case aside, contains a license-name phrase or a permissive-grant phrase
\* and contains no restrictive phrase; a text containing "not for use in",
\* "not licensed for" or "proprietary" in any letter case is never
\* compatible, whatever else it contains.
C7_Classifier ==
  (Len(args) = 1 /\ IsSome(result)) =>
    LET has(phrases) ==
          /\ IsSome(args[1])
          /\ \E phrase \in phrases : C7_ContainsAnyCase(Val(args[1]), phrase)
    IN  /\ Val(result) = ( /\ has(compatibleLicenses) \/ has(permissivePhrases)
                           /\ ~has(incompatiblePhrases) )
        /\ has(C7_Restrictive) => Val(result) = FALSE

\* C7 witness: a license name next to a restrictive phrase in capitals
C7_Witness ==
  /\ Len(args) = 1
  /\ args[1] = Some(<<"M","I","T"," ","L","i","c","e","n","s","e","N","o","t"," ","F","o","r"," ","U","s","e"," ","I","n">>)
  /\ result = Some(FALSE)

\* C8.  calculate_net_score is 0.25 * license + 0.25 * rampup + 0.25 *
\* correctness + 0.25 * responsiveness; for sub-scores in [0,1] it lies in
\* [0,1]; (1,1,1,1) gives 1, (0,0,0,0) gives 0, and two sub-scores of 1 with
\* two of 0 give 0.5.
C8_NetScore ==
  (Len(args) = 4 /\ IsSome(result)) =>
    LET net == Val(result)
        sum == args[1][1] + args[2][1] + args[3][1] + args[4][1]
        ones == Cardinality({ k \in 1..4 : args[k] = Milli(1000) })
        zeros == Cardinality({ k \in 1..4 : args[k] = Milli(0) })
    IN  /\ net[2] > 0
        /\ net[1] * 4000 = sum * net[2]
        /\ net[1] >= 0
        /\ net[1] <= net[2]
        /\ ones = 4 => net[1] = net[2]
        /\ zeros = 4 => net[1] = 0
        /\ (ones = 2 /\ zeros = 2) => 2 * net[1] = net[2]

\* C8 witness: (1, 0, 1, 0) gives 0.5
C8_Witness ==
  /\ args = << Milli(1000), Milli(0), Milli(1000), Milli(0) >>
  /\ IsSome(result)
  /\ 2 * Val(result)[1] = Val(result)[2]

\* C9 (as claimed).  Every invocation of calculate_rampup_metric that has
\* ended, the ones whose git.clone failed included, has attempted the
\* removal of ./repos/<name>.
C9_RemovalAlwaysAttempted ==
  \A i \in DOMAIN rpc :
    rpc[i] \in { "returned", "rejected" } => i \in rmRequested

\* C10.  calculate_rampup_metric returns without waiting for the removal it
\* requested: at the step an invocation returns, its removal is pending and
\* the directory still exists.
C10_ReturnsBeforeRemoval ==
  [][ \A i \in DOMAIN rpc :
        (rpc[i] = "clone" /\ rpc'[i] = "returned") => (i \in rmPending' /\ dir') ]_vars

\* C10 witness: invocation 1 has returned, its removal is pending and the
\* directory exists, while invocation 2, started after that return, is in
\* its checkout
C10_Witness ==
  /\ rpc # << >>
  /\ rpc[1] = "returned"
  /\ 1 \in rmPending
  /\ dir
  /\ rpc[2] = "clone"
  /\ rstart[2] > rstart[1]

====
